---- MODULE Spec2Model ----
(***************************************************************************)
(* Model of bookstore/src/open_book.py: a two-statement script that        *)
(* resolves %WINDIR%\explorer.exe and starts it with /select,"<path>".     *)
(*                                                                         *)
(* Text is modelled as a sequence of one-character strings, so that        *)
(* joining, formatting and command-line splitting are real computations.   *)
(* The script targets Windows (WINDIR, explorer.exe), so os.path is        *)
(* ntpath and subprocess.Popen hands the command string unchanged to       *)
(* CreateProcess, which resolves the program from the string and whose     *)
(* child splits the string into arguments by the C runtime's rules.        *)
(***************************************************************************)
EXTENDS Integers, Sequences, FiniteSets, TLC

VARIABLES environ, sys_argv, images, pc, FILEBROWSER_PATH, command,
          argAccessed, fault, exitcode, popenCalls, spawned, child

vars == <<environ, sys_argv, images, pc, FILEBROWSER_PATH, command,
          argAccessed, fault, exitcode, popenCalls, spawned, child>>

(***************************************************************************)
(* Bounds of the model.                                                    *)
(***************************************************************************)
MaxWinLen == 2
MaxArgLen == 3

(***************************************************************************)
(* Characters and literals.                                                *)
(***************************************************************************)
DQ == "\""
BS == "\\"
SP == " "
WinChars == {"C", BS, SP}
ArgChars == {"a", SP, DQ, BS}

explorer_exe == <<"e", "x", "p", "l", "o", "r", "e", "r", ".", "e", "x", "e">>
select_prefix == <<"/", "s", "e", "l", "e", "c", "t", ",">>
script_name == <<"o", ".", "p", "y">>

\* The value of a name that has not been assigned yet.
Unset == <<"<unset>">>

Strings(chars, n) == UNION {[1..k -> chars] : k \in 0..n}

IsSep(c) == c \in {BS, "/"}
IsWS(c) == c \in {SP, "\t"}
HasDQ(s) == \E i \in 1..Len(s) : s[i] = DQ
HasWS(s) == \E i \in 1..Len(s) : IsWS(s[i])

(***************************************************************************)
(* os.getenv: the set of values bound to the name (empty when unset, in    *)
(* which case os.getenv returns None).                                     *)
(***************************************************************************)
getenv(name) == {e[2] : e \in {x \in environ : x[1] = name}}

(***************************************************************************)
(* ntpath.splitdrive and ntpath.join(path, p) (CPython 3.11) for a p with  *)
(* no drive and no leading separator of its own ('explorer.exe').          *)
(***************************************************************************)
Norm(p) == [i \in 1..Len(p) |-> IF p[i] = "/" THEN BS ELSE p[i]]

\* str.find(c, start) with 1-based positions; 0 when absent.
Find(s, c, start) ==
  LET hits == {i \in start..Len(s) : s[i] = c}
  IN IF hits = {} THEN 0 ELSE CHOOSE i \in hits : \A j \in hits : i <= j

Upper(c) == CASE c = "u" -> "U" [] c = "n" -> "N" [] c = "c" -> "C" [] OTHER -> c
unc_prefix == <<BS, BS, "?", BS, "U", "N", "C", BS>>

splitdrive(p) ==
  LET normp == Norm(p)
      n == Len(p)
      nodrive == [drive |-> <<>>, path |-> p]
  IN IF n < 2 THEN nodrive
     ELSE IF normp[1] = BS /\ normp[2] = BS
     THEN LET isUnc == /\ n >= 8
                       /\ [i \in 1..8 |-> Upper(normp[i])] = unc_prefix
              start == IF isUnc THEN 9 ELSE 3
              index == Find(normp, BS, start)
              index2 == IF index = 0 THEN 0 ELSE Find(normp, BS, index + 1)
          IN IF index = 0 \/ index2 = 0
             THEN [drive |-> p, path |-> <<>>]
             ELSE [drive |-> SubSeq(p, 1, index2 - 1), path |-> SubSeq(p, index2, n)]
     ELSE IF normp[2] = ":"
     THEN [drive |-> SubSeq(p, 1, 2), path |-> SubSeq(p, 3, n)]
     ELSE nodrive

join(path, p) ==
  LET r == splitdrive(path)
      rp == IF r.path # <<>> /\ ~IsSep(r.path[Len(r.path)])
            THEN r.path \o <<BS>>
            ELSE r.path
      result_path == rp \o p
  IN IF /\ result_path # <<>>
        /\ ~IsSep(result_path[1])
        /\ r.drive # <<>>
        /\ r.drive[Len(r.drive)] # ":"
     THEN r.drive \o <<BS>> \o result_path
     ELSE r.drive \o result_path

(***************************************************************************)
(* Faulty variants of the f-string of line 10.                             *)
(***************************************************************************)
\* The path is not wrapped in quotes.
Format_Unquoted(fb, arg) == fb \o <<SP>> \o select_prefix \o arg

\* The wrapping quotes are backslash-escaped (what the calling program's own
\* process API did, per the script's opening comment).
Format_EscapedQuotes(fb, arg) ==
  fb \o <<SP>> \o select_prefix \o <<BS, DQ>> \o arg \o <<BS, DQ>>

\* Quotes inside the path are backslash-escaped before substitution.
RECURSIVE EscapeDQ(_)
EscapeDQ(a) ==
  IF a = <<>> THEN <<>>
  ELSE (IF Head(a) = DQ THEN <<BS, DQ>> ELSE <<Head(a)>>) \o EscapeDQ(Tail(a))

Format_EscapedPath(fb, arg) ==
  fb \o <<SP>> \o select_prefix \o <<DQ>> \o EscapeDQ(arg) \o <<DQ>>

(***************************************************************************)
(* The f-string of line 10.                                                *)
(***************************************************************************)
Format(fb, arg) == fb \o <<SP>> \o select_prefix \o <<DQ>> \o arg \o <<DQ>>

(***************************************************************************)
(* What subprocess.Popen(<str>) does with the string on Windows.           *)
(*                                                                         *)
(* CreateProcess (no application name given) takes the program from the    *)
(* command line: a leading quoted string, or else the text up to a white   *)
(* space, trying each successively longer white-space-delimited prefix     *)
(* until one names an executable image.                                    *)
(***************************************************************************)
RECURSIVE SkipWS(_, _)
SkipWS(s, i) == IF i <= Len(s) /\ IsWS(s[i]) THEN SkipWS(s, i + 1) ELSE i

\* End positions (exclusive) of the program-name candidates, given the start.
CandidateEnds(s, b) ==
  IF b <= Len(s) /\ s[b] = DQ
  THEN {}
  ELSE {e \in (b + 1)..(Len(s) + 1) :
          /\ e = Len(s) + 1 \/ IsWS(s[e])
          /\ ~IsWS(s[e - 1])}

Candidates(s) ==
  LET b == SkipWS(s, 1)
  IN IF b <= Len(s) /\ s[b] = DQ
     THEN LET q == Find(s, DQ, b + 1)
          IN {SubSeq(s, b + 1, (IF q = 0 THEN Len(s) + 1 ELSE q) - 1)}
     ELSE {SubSeq(s, b, e - 1) : e \in CandidateEnds(s, b)}

\* The images CreateProcess can start for the string: the shortest candidate
\* that names an existing executable (a set: empty when none does).
Resolve(s, fs) ==
  LET ok == {c \in Candidates(s) : c \in fs}
  IN {c \in ok : \A d \in ok : Len(c) <= Len(d)}

(***************************************************************************)
(* The started program splits its command line by the C runtime's rules.   *)
(* Each token is kept both as the text it spans (raw) and as the value     *)
(* the program sees (val).                                                 *)
(***************************************************************************)
RECURSIVE CountBS(_, _)
CountBS(s, i) == IF i <= Len(s) /\ s[i] = BS THEN 1 + CountBS(s, i + 1) ELSE 0

Repeat(c, n) == [i \in 1..n |-> c]

\* The program name: quotes toggle, no backslash rule, white space ends it.
RECURSIVE ScanProgram(_, _, _, _, _)
ScanProgram(s, i, inQ, raw, val) ==
  IF i > Len(s) THEN [raw |-> raw, val |-> val, next |-> i]
  ELSE IF s[i] = DQ THEN ScanProgram(s, i + 1, ~inQ, raw \o <<DQ>>, val)
  ELSE IF IsWS(s[i]) /\ ~inQ THEN [raw |-> raw, val |-> val, next |-> i]
  ELSE ScanProgram(s, i + 1, inQ, raw \o <<s[i]>>, val \o <<s[i]>>)

\* One argument: 2n backslashes before a quote give n backslashes and the quote
\* toggles quoting; 2n+1 give n backslashes and a literal quote; a doubled quote
\* inside quotes is a literal quote; white space outside quotes ends it.
RECURSIVE ScanArg(_, _, _, _, _)
ScanArg(s, i, inQ, raw, val) ==
  IF i > Len(s) THEN [raw |-> raw, val |-> val, next |-> i]
  ELSE
    LET n == CountBS(s, i)
        j == i + n
    IN IF n > 0
       THEN IF j <= Len(s) /\ s[j] = DQ
            THEN IF n % 2 = 0
                 THEN ScanArg(s, j, inQ, raw \o Repeat(BS, n), val \o Repeat(BS, n \div 2))
                 ELSE ScanArg(s, j + 1, inQ, raw \o Repeat(BS, n) \o <<DQ>>,
                              val \o Repeat(BS, n \div 2) \o <<DQ>>)
            ELSE ScanArg(s, j, inQ, raw \o Repeat(BS, n), val \o Repeat(BS, n))
       ELSE IF s[i] = DQ
            THEN IF inQ /\ i + 1 <= Len(s) /\ s[i + 1] = DQ
                 THEN ScanArg(s, i + 2, inQ, raw \o <<DQ, DQ>>, val \o <<DQ>>)
                 ELSE ScanArg(s, i + 1, ~inQ, raw \o <<DQ>>, val)
            ELSE IF IsWS(s[i]) /\ ~inQ
                 THEN [raw |-> raw, val |-> val, next |-> i]
                 ELSE ScanArg(s, i + 1, inQ, raw \o <<s[i]>>, val \o <<s[i]>>)

RECURSIVE ScanArgs(_, _)
ScanArgs(s, i) ==
  LET b == SkipWS(s, i)
  IN IF b > Len(s) THEN <<>>
     ELSE LET t == ScanArg(s, b, FALSE, <<>>, <<>>)
          IN <<[raw |-> t.raw, val |-> t.val]>> \o ScanArgs(s, t.next)

\* argv of the started program: the program token, then the arguments.
CommandLineToArgv(s) ==
  LET t == ScanProgram(s, 1, FALSE, <<>>, <<>>)
  IN <<[raw |-> t.raw, val |-> t.val]>> \o ScanArgs(s, t.next)

(***************************************************************************)
(* The state before the script runs: the environment either lacks WINDIR   *)
(* or binds it to some text, sys.argv holds the script name and zero, one  *)
(* or two arguments (only the first is ever read), and the file system     *)
(* holds any subset of the executables the command line could name.        *)
(***************************************************************************)
WinValues == Strings(WinChars, MaxWinLen)
ArgValues == Strings(ArgChars, MaxArgLen)
ArgLists == {<<>>} \cup {<<a>> : a \in ArgValues}
               \cup {<<a, <<"a">>>> : a \in {<<>>, <<"a">>}}

Init ==
  /\ environ \in {{}} \cup {{<<"WINDIR", w>>} : w \in WinValues}
  /\ sys_argv \in {<<script_name>> \o l : l \in ArgLists}
  /\ images \in SUBSET UNION {Candidates(join(w, explorer_exe)) : w \in getenv("WINDIR")}
  /\ pc = "line9"
  /\ FILEBROWSER_PATH = Unset
  /\ command = Unset
  /\ argAccessed = FALSE
  /\ fault = "none"
  /\ exitcode = -1
  /\ popenCalls = 0
  /\ spawned = <<>>
  /\ child = "none"

\* An unhandled exception: the traceback is printed and the interpreter exits 1.
Raise(exc) ==
  /\ fault' = exc
  /\ exitcode' = 1
  /\ pc' = "done"

(***************************************************************************)
(* Faulty variants of line 9.                                              *)
(***************************************************************************)
\* os.getenv('WINDIR', 'C:'): a fallback directory instead of None.
Line9_Fallback ==
  /\ pc = "line9"
  /\ \E w \in (IF getenv("WINDIR") = {} THEN {<<"C", ":">>} ELSE getenv("WINDIR")) :
       FILEBROWSER_PATH' = join(w, explorer_exe)
  /\ pc' = "format"
  /\ UNCHANGED <<environ, sys_argv, images, command, argAccessed,
                 fault, exitcode, popenCalls, spawned, child>>

\* The argument is read before the environment.
Line9_ArgFirst ==
  /\ pc = "line9"
  /\ argAccessed' = TRUE
  /\ IF Len(sys_argv) < 2
     THEN /\ Raise("IndexError")
          /\ UNCHANGED FILEBROWSER_PATH
     ELSE IF getenv("WINDIR") = {}
     THEN /\ Raise("TypeError")
          /\ UNCHANGED FILEBROWSER_PATH
     ELSE /\ \E w \in getenv("WINDIR") : FILEBROWSER_PATH' = join(w, explorer_exe)
          /\ pc' = "format"
          /\ UNCHANGED <<fault, exitcode>>
  /\ UNCHANGED <<environ, sys_argv, images, command, popenCalls, spawned, child>>

(***************************************************************************)
(* Line 9: FILEBROWSER_PATH = os.path.join(os.getenv('WINDIR'),            *)
(*                                         'explorer.exe')                 *)
(* os.getenv returns None for an unset name and os.path.join(None, ...)    *)
(* raises TypeError.                                                       *)
(***************************************************************************)
Line9 ==
  /\ pc = "line9"
  /\ IF getenv("WINDIR") = {}
     THEN /\ Raise("TypeError")
          /\ UNCHANGED FILEBROWSER_PATH
     ELSE /\ \E w \in getenv("WINDIR") : FILEBROWSER_PATH' = join(w, explorer_exe)
          /\ pc' = "format"
          /\ UNCHANGED <<fault, exitcode>>
  /\ UNCHANGED <<environ, sys_argv, images, command, argAccessed,
                 popenCalls, spawned, child>>

\* Faulty variant: a missing argument is replaced by the empty path.
Line10Format_DefaultPath ==
  /\ pc = "format"
  /\ argAccessed' = TRUE
  /\ command' = Format(FILEBROWSER_PATH, IF Len(sys_argv) < 2 THEN <<>> ELSE sys_argv[2])
  /\ pc' = "popen"
  /\ UNCHANGED <<environ, sys_argv, images, FILEBROWSER_PATH, fault, exitcode,
                 popenCalls, spawned, child>>

(***************************************************************************)
(* Line 10, the argument of the call:                                      *)
(*   f'{FILEBROWSER_PATH} /select,"{sys.argv[1]}"'                         *)
(* sys.argv[1] (the second element) raises IndexError when absent.         *)
(***************************************************************************)
Line10Format ==
  /\ pc = "format"
  /\ argAccessed' = TRUE
  /\ IF Len(sys_argv) < 2
     THEN /\ Raise("IndexError")
          /\ UNCHANGED command
     ELSE /\ command' = Format(FILEBROWSER_PATH, sys_argv[2])
          /\ pc' = "popen"
          /\ UNCHANGED <<fault, exitcode>>
  /\ UNCHANGED <<environ, sys_argv, images, FILEBROWSER_PATH,
                 popenCalls, spawned, child>>

\* Faulty variant: a failed start is tried once more before giving up.
Popen_Retry ==
  /\ pc = "popen"
  /\ popenCalls' = popenCalls + 1
  /\ IF Resolve(command, images) = {}
     THEN /\ IF popenCalls >= 1
             THEN Raise("FileNotFoundError")
             ELSE UNCHANGED <<pc, fault, exitcode>>
          /\ UNCHANGED <<spawned, child>>
     ELSE /\ \E img \in Resolve(command, images) :
               spawned' = Append(spawned, [image |-> img, cmdline |-> command])
          /\ child' = "running"
          /\ pc' = "end"
          /\ UNCHANGED <<fault, exitcode>>
  /\ UNCHANGED <<environ, sys_argv, images, FILEBROWSER_PATH, command, argAccessed>>

(***************************************************************************)
(* Line 10, the call: subprocess.Popen(<command>).  The process is created *)
(* and the call returns without waiting for it; when no image can be       *)
(* started the call raises FileNotFoundError.                              *)
(***************************************************************************)
Popen ==
  /\ pc = "popen"
  /\ popenCalls' = popenCalls + 1
  /\ IF Resolve(command, images) = {}
     THEN /\ Raise("FileNotFoundError")
          /\ UNCHANGED <<spawned, child>>
     ELSE /\ \E img \in Resolve(command, images) :
               spawned' = Append(spawned, [image |-> img, cmdline |-> command])
          /\ child' = "running"
          /\ pc' = "end"
          /\ UNCHANGED <<fault, exitcode>>
  /\ UNCHANGED <<environ, sys_argv, images, FILEBROWSER_PATH, command, argAccessed>>

\* Faulty variant: the script waits for the started process (Popen(...).wait()).
Exit_AfterWait ==
  /\ pc = "end"
  /\ child = "exited"
  /\ pc' = "done"
  /\ exitcode' = 0
  /\ UNCHANGED <<environ, sys_argv, images, FILEBROWSER_PATH, command,
                 argAccessed, fault, popenCalls, spawned, child>>

(***************************************************************************)
(* End of the script: nothing follows the call, the interpreter exits 0.   *)
(***************************************************************************)
Exit ==
  /\ pc = "end"
  /\ pc' = "done"
  /\ exitcode' = 0
  /\ UNCHANGED <<environ, sys_argv, images, FILEBROWSER_PATH, command,
                 argAccessed, fault, popenCalls, spawned, child>>

(***************************************************************************)
(* The started process runs on its own and may exit at any time, or never. *)
(***************************************************************************)
ChildExit ==
  /\ child = "running"
  /\ child' = "exited"
  /\ UNCHANGED <<environ, sys_argv, images, pc, FILEBROWSER_PATH, command,
                 argAccessed, fault, exitcode, popenCalls, spawned>>

Next == Line9 \/ Line10Format \/ Popen \/ Exit \/ ChildExit

Spec == Init /\ [][Next]_vars

\* The interpreter keeps executing the script's statements; nothing is assumed
\* about the started process.
FairSpec ==
  /\ Spec
  /\ WF_vars(Line9)
  /\ WF_vars(Line10Format)
  /\ WF_vars(Popen)
  /\ WF_vars(Exit)

(***************************************************************************)
(* Abbreviations used by the properties.                                   *)
(***************************************************************************)
WindirSet == getenv("WINDIR") # {}
ArgGiven == Len(sys_argv) >= 2
Built == command # Unset
Launched == spawned # <<>>
\* WINDIR is set to text that begins with a name character (neither white
\* space nor a separator).
WindirPlain ==
  WindirSet /\ \A w \in getenv("WINDIR") : w # <<>> /\ ~IsWS(w[1]) /\ ~IsSep(w[1])
Quoted(p) == select_prefix \o <<DQ>> \o p \o <<DQ>>
LastOf(seq) == seq[Len(seq)]
\* Position of the last double quote of s (0 when there is none).
LastDQ(s) ==
  LET hits == {i \in 1..Len(s) : s[i] = DQ}
  IN IF hits = {} THEN 0 ELSE CHOOSE i \in hits : \A j \in hits : j <= i

(***************************************************************************)
(* C1.  With WINDIR unset, whatever the arguments, the script never gets   *)
(* past line 9: no command is built, no process start is attempted, no     *)
(* process exists, line 9 can always run, and the run ends in the          *)
(* TypeError fault with exit status 1.                                     *)
(***************************************************************************)
C1_UnsetWindirFaultsBeforeStart ==
  ~WindirSet =>
    /\ pc \in {"line9", "done"}
    /\ pc = "line9" => ENABLED Line9
    /\ ~Built /\ popenCalls = 0 /\ ~Launched /\ child = "none"
    /\ pc = "done" => fault = "TypeError" /\ exitcode = 1

C1_Witness ==
  /\ ~WindirSet /\ ArgGiven
  /\ pc = "done" /\ fault = "TypeError" /\ popenCalls = 0

(***************************************************************************)
(* C2 as stated.  In every run with no positional argument the fault that  *)
(* ends the run is the missing-argument one (IndexError), no command is    *)
(* built and no process is started.                                        *)
(***************************************************************************)
C2_Original ==
  ~ArgGiven =>
    /\ ~Built /\ popenCalls = 0 /\ ~Launched
    /\ pc = "done" => fault = "IndexError"

(***************************************************************************)
(* C2 as amended.  In every run with no positional argument no command is  *)
(* built, no process start is attempted and the run ends in a fault with   *)
(* exit status 1; the fault is the missing-argument one (IndexError)       *)
(* exactly when WINDIR is set, and the missing-environment one (TypeError) *)
(* when WINDIR is unset as well.                                           *)
(***************************************************************************)
C2_NoArgFaults ==
  ~ArgGiven =>
    /\ ~Built /\ popenCalls = 0 /\ ~Launched
    /\ pc \in {"line9", "format", "done"}
    /\ pc = "format" => ENABLED Line10Format
    /\ pc = "done" =>
         /\ exitcode = 1
         /\ fault = (IF WindirSet THEN "IndexError" ELSE "TypeError")

C2_Witness ==
  /\ ~ArgGiven /\ WindirSet
  /\ pc = "done" /\ fault = "IndexError" /\ ~Built

C4_ParseBackYieldsPath ==
  (Built /\ ~HasDQ(sys_argv[2])) =>
    LET last == LastOf(CommandLineToArgv(command))
        q1 == Find(last.raw, DQ, 1)
        q2 == LastDQ(last.raw)
        p == sys_argv[2]
    IN /\ q1 > 0 /\ q2 > q1 /\ q2 = Len(last.raw)
       /\ SubSeq(last.raw, 1, q1 - 1) = select_prefix
       /\ SubSeq(last.raw, q1 + 1, q2 - 1) = p
       /\ (p = <<>> \/ LastOf(p) # BS) => last.val = select_prefix \o p

C4_Witness ==
  /\ Built /\ Launched
  /\ sys_argv[2] = <<"a", BS, "a">>
  /\ LastOf(CommandLineToArgv(command)).val = select_prefix \o <<"a", BS, "a">>

(***************************************************************************)
(* C5.  Under FairSpec (the interpreter keeps running the script; nothing  *)
(* is assumed about the started process): every run terminates, and once   *)
(* the process-start call has returned the script reaches its successful   *)
(* termination, whether or not the started process ever exits.             *)
(***************************************************************************)
C5_DoesNotBlock ==
  /\ <>(pc = "done")
  /\ (pc = "end") ~> (pc = "done" /\ exitcode = 0)

C5_Witness ==
  /\ pc = "done" /\ exitcode = 0
  /\ Launched /\ child = "running"

(***************************************************************************)
(* C6 as stated.  If the resolved executable path does not exist, no       *)
(* process is started and the script never terminates successfully         *)
(* (stated here for WINDIR values that begin with a name character).       *)
(***************************************************************************)
C6_Original ==
  (WindirPlain /\ FILEBROWSER_PATH # Unset /\ FILEBROWSER_PATH \notin images) =>
    /\ ~Launched
    /\ pc # "end"
    /\ pc = "done" => exitcode # 0 /\ fault # "none"

(***************************************************************************)
(* C7 as stated.  For every WINDIR (directory names with spaces included;   *)
(* stated here for values that begin with a name character) and every      *)
(* path with no double quote: the resolved path is explorer.exe directly   *)
(* beneath WINDIR, the program token of the launched command is exactly    *)
(* that path, there is exactly one argument, and the image that is started *)
(* is that path.                                                           *)
(***************************************************************************)
C7_Original ==
  (WindirPlain /\ Built /\ ~HasDQ(sys_argv[2])) =>
    LET toks == CommandLineToArgv(command)
    IN /\ \E w \in getenv("WINDIR") : FILEBROWSER_PATH = join(w, explorer_exe)
       /\ toks[1].val = FILEBROWSER_PATH
       /\ Len(toks) = 2
       /\ \A i \in 1..Len(spawned) : spawned[i].image = FILEBROWSER_PATH

(***************************************************************************)
(* C8.  There is at most one process-start attempt and at most one started *)
(* process.  A run that ended spawned exactly one process if it ended      *)
(* without fault, which is the case whenever WINDIR is set, an argument is *)
(* given and process creation can succeed; it spawned none if it ended in  *)
(* a fault, and a fault ends the run at once with exit status 1.           *)
(***************************************************************************)
C8_AtMostOneSpawn ==
  /\ popenCalls <= 1
  /\ Len(spawned) <= popenCalls
  /\ fault # "none" => pc = "done" /\ exitcode = 1 /\ ~Launched
  /\ fault = "FileNotFoundError" => popenCalls = 1
  /\ pc = "done" =>
       /\ fault = "none" <=> exitcode = 0
       /\ fault = "none" => Len(spawned) = 1 /\ popenCalls = 1
       /\ (/\ WindirSet
           /\ ArgGiven
           /\ \E w \in getenv("WINDIR") :
                Resolve(Format(join(w, explorer_exe), sys_argv[2]), images) # {})
          => Len(spawned) = 1 /\ fault = "none"

C8_Witness ==
  /\ pc = "done" /\ exitcode = 0
  /\ Len(spawned) = 1 /\ popenCalls = 1

(***************************************************************************)
(* C9.  For every argument, double quotes included, the command string is  *)
(* FILEBROWSER_PATH, one space, /select," , the argument's characters      *)
(* unchanged, and a closing quote, and that string is what is launched.    *)
(***************************************************************************)
C9_PathVerbatim ==
  Built =>
    LET n == Len(FILEBROWSER_PATH)
        k == Len(select_prefix)
        p == sys_argv[2]
    IN /\ Len(command) = n + 1 + k + 1 + Len(p) + 1
       /\ SubSeq(command, 1, n) = FILEBROWSER_PATH
       /\ command[n + 1] = SP
       /\ SubSeq(command, n + 2, n + 1 + k) = select_prefix
       /\ command[n + k + 2] = DQ
       /\ SubSeq(command, n + k + 3, n + k + 2 + Len(p)) = p
       /\ command[Len(command)] = DQ
       /\ \A i \in 1..Len(spawned) : spawned[i].cmdline = command

C9_Witness ==
  /\ Built /\ Launched
  /\ sys_argv[2] = <<"a", DQ, SP>>
  /\ spawned[1].cmdline = FILEBROWSER_PATH \o <<SP>> \o select_prefix
                            \o <<DQ, "a", DQ, SP, DQ>>

(***************************************************************************)
(* C10.  The environment is read before the argument: the argument is      *)
(* accessed only once the executable path has been resolved, and a run     *)
(* with WINDIR unset and no argument ends in the missing-environment fault *)
(* (TypeError) without the argument having been accessed.                  *)
(***************************************************************************)
C10_EnvBeforeArg ==
  /\ argAccessed => WindirSet /\ FILEBROWSER_PATH # Unset
  /\ (~WindirSet /\ ~ArgGiven /\ pc = "done") =>
       fault = "TypeError" /\ ~argAccessed

C10_Witness ==
  /\ ~WindirSet /\ ~ArgGiven
  /\ pc = "done" /\ fault = "TypeError" /\ ~argAccessed

====
